---- MODULE Spec2Model ----
(***************************************************************************)
(* Memory latency benchmark (benchmarks/mem/membench.c).                   *)
(*                                                                         *)
(* Two views of the program are modelled.                                  *)
(*   SpecArena : one worker's arena, statement by statement: prepare()     *)
(*               building the pointer cycle, then do_read()/do_write()     *)
(*               walking it.                                               *)
(*   Spec      : the whole process: main(), run_benchmark() and the        *)
(*               benchmark_thread() workers with the barrier.              *)
(***************************************************************************)
EXTENDS Integers, Sequences, FiniteSets, TLC

\* ------------------------------------------------------------ constants
MAX_CPUS == 8
NODE_BYTES == 64
PTR_BYTES == 8
WORD_BYTES == 4
BATCH == 32
\* sizeof(array[0]): 64*0x100000 bytes
ARENA_BYTES == 64 * 1048576
\* ARRAY_SIZE(s.dummy)
DUMMY_LEN == (NODE_BYTES - PTR_BYTES) \div WORD_BYTES
PtrWords == PTR_BYTES \div WORD_BYTES
WordsPerNode == NODE_BYTES \div WORD_BYTES

\* ------------------------------------------------------------ bounds
\* largest node count of a working set in the statement-level arena model
MaxCount == 4
\* the statement-level traversal is followed for at most this many batches
MaxBatches == 2
\* most worker threads of a configuration in the process model
MaxThreads == 2

\* The modelled window of one arena: the nodes of the largest working set,
\* the node just before array[0] and the node just after the working set.
Nodes == (0 - 1)..MaxCount

\* Pointer values. &array[n] is the integer n; the others are no node.
NULL == -10
\* (struct s*)1
MARK == -11
\* an address that is no node of the window (stale or damaged pointer)
WILD == -12

VARIABLES
    cfg,        \* struct cfg
    ptr,        \* array[n].ptr
    dummy,      \* array[n].dummy[w]
    apc,        \* position of the worker in prepare / do_read / do_write
    prep_i,     \* prepare: i
    prep_j,     \* prepare: j
    prep_p,     \* prepare: p
    trav_i,     \* do_read / do_write: i (signed reading of the 32-bit word)
    trav_p,     \* do_read / do_write: p
    line,       \* do_read / do_write: statement of the unrolled batch
    steps,      \* history: pointer-following steps executed
    acc,        \* history: nodes read or written so far
    ptr0,       \* history: ptr as prepare() left it
    dummy0,     \* history: dummy as prepare() left it
    args,       \* the option values of the command line
    platform,   \* "aarch64" or "other" (the #ifdef __aarch64__)
    mpc,        \* main: position
    status,     \* the process: "running" or how it ended
    order,      \* main: order of the sweep
    step,       \* main: step of the sweep
    ccntr_on,   \* the cycle counter has been enabled (ccntr_init)
    rpc,        \* run_benchmark: position
    rb_i,       \* run_benchmark: i
    set,        \* run_benchmark: set
    thread,     \* run_benchmark: thread[]
    barrier,    \* the global barrier
    wpc,        \* benchmark_thread: position of each worker
    tic,        \* benchmark_thread: tic of each worker
    touched,    \* history: the arena nodes each worker has read or written
    print,      \* the global print
    now,        \* the clock of the timing source, as each worker reads it
    stdout_buf, \* the result stream: what is written and not yet flushed
    nrows,      \* history: rows flushed to the result stream
    ndiag,      \* history: lines written to the diagnostic stream
    cfgno,      \* history: calls of run_benchmark so far
    failure     \* history: the setup call that failed in this configuration

avars == <<ptr, dummy, apc, prep_i, prep_j, prep_p, trav_i, trav_p, line,
           steps, acc, ptr0, dummy0>>
pvars == <<args, platform, mpc, status, order, step, ccntr_on, rpc, rb_i, set,
           thread, barrier, wpc, tic, touched, print, now, stdout_buf, nrows,
           ndiag, cfgno, failure>>
vars == <<cfg, avars, pvars>>

\* ------------------------------------------------------------ main(): checks
\* -s: if (cfg.size > sizeof(array[0])) errx(1, ...)
size_accepted_whole_array(sz) == ~(sz > MAX_CPUS * ARENA_BYTES)
size_accepted(sz) == ~(sz > ARENA_BYTES)

\* assert(cfg.ofs < ARRAY_SIZE(s.dummy)), made only when cfg.write
ofs_accepted_off_by_one(c) == c.write => c.ofs <= DUMMY_LEN
ofs_accepted(c) == c.write => c.ofs < DUMMY_LEN

\* ------------------------------------------------------------ prepare()
\* int count = size / sizeof(struct s)
count == cfg.size \div NODE_BYTES

\* memset(array, 0, size): the bytes 0 .. size-1 of the arena
memset_ptr(n, size, old) ==
    IF n >= 0 /\ size >= n * NODE_BYTES + PTR_BYTES THEN NULL ELSE old

memset_word(n, w, size, old) ==
    IF n >= 0 /\ size >= n * NODE_BYTES + PTR_BYTES + (w + 1) * WORD_BYTES
    THEN 0 ELSE old

\* for (i = 0; i < count - 1; i++) array[i].ptr = &array[i+1];
prepare_seq_step ==
    /\ apc = "prepare" /\ cfg.sequential
    /\ prep_i < count - 1
    /\ ptr' = [ptr EXCEPT ![prep_i] = prep_i + 1]
    /\ acc' = acc \cup {prep_i}
    /\ prep_i' = prep_i + 1
    /\ UNCHANGED <<pvars, cfg, dummy, apc, prep_j, prep_p, trav_i, trav_p, line,
                   steps, ptr0, dummy0>>

\* array[count - 1].ptr = &array[0];
prepare_seq_close_past_end ==
    /\ apc = "prepare" /\ cfg.sequential
    /\ ~(prep_i < count - 1)
    /\ ptr' = [ptr EXCEPT ![count] = 0]
    /\ acc' = acc \cup {count}
    /\ apc' = "prepared"
    /\ ptr0' = ptr' /\ dummy0' = dummy
    /\ UNCHANGED <<pvars, cfg, dummy, prep_i, prep_j, prep_p, trav_i, trav_p, line,
                   steps>>
prepare_seq_close ==
    /\ apc = "prepare" /\ cfg.sequential
    /\ ~(prep_i < count - 1)
    /\ ptr' = [ptr EXCEPT ![count - 1] = 0]
    /\ acc' = acc \cup {count - 1}
    /\ apc' = "prepared"
    /\ ptr0' = ptr' /\ dummy0' = dummy
    /\ UNCHANGED <<pvars, cfg, dummy, prep_i, prep_j, prep_p, trav_i, trav_p, line,
                   steps>>

\* memset(array, 0, size); struct s *p = &array[0];
prepare_memset ==
    /\ apc = "prepare" /\ ~cfg.sequential
    /\ ptr' = [n \in Nodes |-> memset_ptr(n, cfg.size, ptr[n])]
    /\ dummy' = [n \in Nodes |->
                   [w \in 0..(DUMMY_LEN - 1) |->
                       memset_word(n, w, cfg.size, dummy[n][w])]]
    /\ acc' = acc \cup {n \in Nodes : n >= 0 /\ n * NODE_BYTES < cfg.size}
    /\ prep_p' = 0
    /\ apc' = "rand"
    /\ UNCHANGED <<pvars, cfg, prep_i, prep_j, trav_i, trav_p, line, steps,
                   ptr0, dummy0>>

\* p->ptr = (struct s*)1; j = rand() % count
prepare_pick ==
    /\ apc = "rand"
    /\ prep_i < count - 1
    /\ \E r \in 0..(count - 1) :
          prep_j' = r
    /\ ptr' = [ptr EXCEPT ![prep_p] = MARK]
    /\ acc' = acc \cup {prep_p}
    /\ apc' = "scan"
    /\ UNCHANGED <<pvars, cfg, dummy, prep_i, prep_p, trav_i, trav_p, line, steps,
                   ptr0, dummy0>>

\* the update of the scan: j = (j >= count) ? 0 : j+1
scan_next_no_wrap(jj) == IF jj >= count THEN jj ELSE jj + 1
scan_next(jj) == IF jj >= count THEN 0 ELSE jj + 1

\* array[j].ptr != NULL: the scan goes on
prepare_scan ==
    /\ apc = "scan"
    /\ ptr[prep_j] # NULL
    /\ prep_j' = scan_next(prep_j)
    /\ acc' = acc \cup {prep_j}
    /\ UNCHANGED <<pvars, cfg, ptr, dummy, apc, prep_i, prep_p, trav_i, trav_p,
                   line, steps, ptr0, dummy0>>

\* array[j].ptr == NULL: p = p->ptr = &array[j]; i++
prepare_link ==
    /\ apc = "scan"
    /\ ptr[prep_j] = NULL
    /\ ptr' = [ptr EXCEPT ![prep_p] = prep_j]
    /\ prep_p' = prep_j
    /\ prep_i' = prep_i + 1
    /\ acc' = acc \cup {prep_j, prep_p}
    /\ apc' = "rand"
    /\ UNCHANGED <<pvars, cfg, dummy, prep_j, trav_i, trav_p, line, steps,
                   ptr0, dummy0>>

\* p->ptr = &array[0];
prepare_close ==
    /\ apc = "rand"
    /\ ~(prep_i < count - 1)
    /\ ptr' = [ptr EXCEPT ![prep_p] = 0]
    /\ acc' = acc \cup {prep_p}
    /\ apc' = "prepared"
    /\ ptr0' = ptr' /\ dummy0' = dummy
    /\ UNCHANGED <<pvars, cfg, dummy, prep_i, prep_j, prep_p, trav_i, trav_p, line,
                   steps>>

\* ------------------------------------------------------------ do_read(), do_write()
\* --i on an unsigned: 0 wraps to 0xFFFFFFFF, held here as its signed reading
Dec32_kept(x) == x
Dec32(x) == IF x = (0 - 2147483647) - 1 THEN 2147483647 ELSE x - 1

\* unsigned i = reads / 32; volatile struct s *p = &array[0];
do_enter ==
    /\ apc = "prepared"
    /\ trav_i' = cfg.read_count \div BATCH
    /\ trav_p' = 0
    /\ apc' = "loop"
    /\ UNCHANGED <<pvars, cfg, ptr, dummy, prep_i, prep_j, prep_p, line, steps, acc,
                   ptr0, dummy0>>

\* while (--i)
do_loop ==
    /\ apc = "loop"
    /\ trav_i' = Dec32(trav_i)
    /\ IF trav_i' # 0
       THEN /\ steps < MaxBatches * BATCH
            /\ apc' = "batch"
       ELSE apc' = "done"
    /\ line' = 0
    /\ UNCHANGED <<pvars, cfg, ptr, dummy, prep_i, prep_j, prep_p, trav_p, steps,
                   acc, ptr0, dummy0>>

\* after statement `line` of the batch
after_line == IF line + 1 = BATCH THEN "loop" ELSE "batch"

\* p = p->ptr;
do_read_step ==
    /\ apc = "batch" /\ ~cfg.write
    /\ IF trav_p \in Nodes
       THEN /\ trav_p' = ptr[trav_p]
            /\ acc' = acc \cup {trav_p}
            /\ steps' = steps + 1
            /\ line' = (line + 1) % BATCH
            /\ apc' = after_line
       ELSE /\ apc' = "fault"
            /\ UNCHANGED <<trav_p, acc, steps, line>>
    /\ UNCHANGED <<pvars, cfg, ptr, dummy, prep_i, prep_j, prep_p, trav_i,
                   ptr0, dummy0>>

\* the place of p->dummy[ofs], p = &array[n]: past the 14 words of dummy it
\* is a word of the node that follows
dummy_place(n, ofs) ==
    LET w == PtrWords + ofs
    IN  [node |-> n + (w \div WordsPerNode), word |-> w % WordsPerNode]

\* p->dummy[ofs]++
write_ptr(n, ofs) ==
    LET t == dummy_place(n, ofs)
    IN  IF t.node \in Nodes /\ t.word < PtrWords
        THEN [ptr EXCEPT ![t.node] = WILD]
        ELSE ptr

write_dummy_first_word(n, ofs) == [dummy EXCEPT ![n][0] = @ + 1]
write_dummy(n, ofs) ==
    LET t == dummy_place(n, ofs)
    IN  IF t.node \in Nodes /\ t.word >= PtrWords
        THEN [dummy EXCEPT ![t.node][t.word - PtrWords] = @ + 1]
        ELSE dummy

\* p->dummy[ofs]++; p = p->ptr;
do_write_step ==
    /\ apc = "batch" /\ cfg.write
    /\ IF trav_p \in Nodes
       THEN /\ ptr' = write_ptr(trav_p, cfg.ofs)
            /\ dummy' = write_dummy(trav_p, cfg.ofs)
            /\ trav_p' = ptr'[trav_p]
            /\ acc' = acc \cup {trav_p, dummy_place(trav_p, cfg.ofs).node}
            /\ steps' = steps + 1
            /\ line' = (line + 1) % BATCH
            /\ apc' = after_line
       ELSE /\ apc' = "fault"
            /\ UNCHANGED <<ptr, dummy, trav_p, acc, steps, line>>
    /\ UNCHANGED <<pvars, cfg, prep_i, prep_j, prep_p, trav_i, ptr0, dummy0>>

\* ------------------------------------------------------------ SpecArena
\* working-set sizes of the arena model, in half nodes
ArenaSizes == {h * (NODE_BYTES \div 2) : h \in 1..(2 * MaxCount)}
\* -c: fewer than a batch, exactly one, two and three batches
ReadCounts == {BATCH - 1, BATCH, 2 * BATCH, 3 * BATCH}
\* -o: first and last word of dummy, and the word after it
OfsChoices == {0, DUMMY_LEN - 1, DUMMY_LEN}

ArenaCfgs ==
    [sequential : BOOLEAN, size : ArenaSizes, num_threads : {1},
     read_count : ReadCounts, cpu_set : {{}}, write : BOOLEAN,
     ofs : OfsChoices, use_cycles : {FALSE}]

\* memory of a process that has not yet run a configuration (zeroed)
FreshPtr == [n \in Nodes |-> NULL]
FreshDummy == [n \in Nodes |-> [w \in 0..(DUMMY_LEN - 1) |-> 0]]
\* memory left by an earlier, larger sequential write-mode configuration
StalePtr == [n \in Nodes |-> IF n >= 0 /\ n < MaxCount THEN n + 1 ELSE WILD]
StaleDummy == [n \in Nodes |-> [w \in 0..(DUMMY_LEN - 1) |-> 1]]


\* ------------------------------------------------------------ the process
\* the slots of thread[] a configuration of the model uses
Slots == 0..(MaxThreads - 1)
\* nodes of one arena
ARENA_NODES == ARENA_BYTES \div NODE_BYTES

Running == status = "running"

\* a double that no worker has stored: the slot holds what the stack held
NoResult == [stored |-> FALSE, num |-> 0, den |-> 0]
\* thread[] of a new call of run_benchmark: nothing of it is initialised
NewThreads == [k \in Slots |-> [cpu |-> 0, created |-> FALSE, result |-> NoResult]]
NoTouch == [lo |-> 0, hi |-> 0 - 1]
\* values an uninitialised thread[i].cpu may hold
GarbageCpus == {1, MAX_CPUS}

Min(S) == CHOOSE x \in S : \A y \in S : x <= y
Max(S) == CHOOSE x \in S : \A y \in S : x >= y

\* struct cfg cfg = { ... }; CPU_ZERO(&cfg.cpu_set);
DefaultCfg ==
    [sequential |-> TRUE, size |-> 0, num_threads |-> 1,
     read_count |-> 33554432, cpu_set |-> {}, write |-> FALSE, ofs |-> 0,
     use_cycles |-> FALSE]

\* while ((opt = getopt(...)) != -1): every option stores its value; -s ends
\* the process when the size is larger than one arena
main_getopt ==
    /\ Running /\ mpc = "getopt"
    /\ cfg' = args
    /\ IF size_accepted(args.size)
       THEN mpc' = "assert" /\ status' = status
       ELSE mpc' = "exited" /\ status' = "1"
    /\ UNCHANGED <<avars, args, platform, order, step, ccntr_on, rpc, rb_i,
                   set, thread, barrier, wpc, tic, touched, print, now,
                   stdout_buf, nrows, ndiag, cfgno, failure>>

\* if (cfg.write) assert(cfg.ofs < ARRAY_SIZE(s.dummy));
main_assert ==
    /\ Running /\ mpc = "assert"
    /\ IF ofs_accepted(cfg)
       THEN mpc' = "ccntr" /\ status' = status
       ELSE mpc' = "exited" /\ status' = "abort"
    /\ UNCHANGED <<cfg, avars, args, platform, order, step, ccntr_on, rpc,
                   rb_i, set, thread, barrier, wpc, tic, touched, print, now,
                   stdout_buf, nrows, ndiag, cfgno, failure>>

\* if (cfg.use_cycles) ccntr_init(); ccntr_init is empty off aarch64
main_ccntr_init_skipped ==
    /\ Running /\ mpc = "ccntr"
    /\ ccntr_on' = FALSE
    /\ mpc' = IF cfg.size # 0 THEN "single" ELSE "sweep"
    /\ order' = 10 /\ step' = 0
    /\ UNCHANGED <<cfg, avars, args, platform, status, rpc, rb_i, set,
                   thread, barrier, wpc, tic, touched, print, now,
                   stdout_buf, nrows, ndiag, cfgno, failure>>
main_ccntr_init ==
    /\ Running /\ mpc = "ccntr"
    /\ ccntr_on' = (cfg.use_cycles /\ platform = "aarch64")
    /\ mpc' = IF cfg.size # 0 THEN "single" ELSE "sweep"
    /\ order' = 10 /\ step' = 0
    /\ UNCHANGED <<cfg, avars, args, platform, status, rpc, rb_i, set,
                   thread, barrier, wpc, tic, touched, print, now,
                   stdout_buf, nrows, ndiag, cfgno, failure>>

\* if (cfg.size != 0) run_benchmark(&cfg);
main_single ==
    /\ Running /\ mpc = "single" /\ rpc = "idle"
    /\ rpc' = "enter"
    /\ mpc' = "return"
    /\ UNCHANGED <<cfg, avars, args, platform, status, order, step, ccntr_on,
                   rb_i, set, thread, barrier, wpc, tic, touched, print, now,
                   stdout_buf, nrows, ndiag, cfgno, failure>>

\* size = 1 << order; if (step == 1) size += size / 2;
sweep_size_no_half(o, st) == 2^o
sweep_size(o, st) == IF st = 1 THEN 2^o + (2^o \div 2) ELSE 2^o

\* for (order = 10; order <= 24; order++) for (step = 0; step < 2; step++)
\*     { cfg.size = size; run_benchmark(&cfg); }
main_sweep ==
    /\ Running /\ mpc = "sweep" /\ rpc = "idle"
    /\ order <= 24
    /\ cfg' = [cfg EXCEPT !.size = sweep_size(order, step)]
    /\ rpc' = "enter"
    /\ mpc' = "swept"
    /\ UNCHANGED <<avars, args, platform, status, order, step, ccntr_on,
                   rb_i, set, thread, barrier, wpc, tic, touched, print, now,
                   stdout_buf, nrows, ndiag, cfgno, failure>>

\* step++, and order++ after the second step
main_sweep_next ==
    /\ Running /\ mpc = "swept" /\ rpc = "idle"
    /\ IF step + 1 < 2
       THEN step' = step + 1 /\ order' = order
       ELSE step' = 0 /\ order' = order + 1
    /\ mpc' = "sweep"
    /\ UNCHANGED <<cfg, avars, args, platform, status, ccntr_on, rpc, rb_i,
                   set, thread, barrier, wpc, tic, touched, print, now,
                   stdout_buf, nrows, ndiag, cfgno, failure>>

\* return 0;
main_return ==
    /\ Running /\ rpc = "idle"
    /\ mpc = "return" \/ (mpc = "sweep" /\ ~(order <= 24))
    /\ mpc' = "exited"
    /\ status' = "0"
    /\ UNCHANGED <<cfg, avars, args, platform, order, step, ccntr_on, rpc,
                   rb_i, set, thread, barrier, wpc, tic, touched, print, now,
                   stdout_buf, nrows, ndiag, cfgno, failure>>

\* ------------------------------------------------------------ run_benchmark()
\* the count the barrier is initialised with
barrier_count_one_less(c) == c.num_threads - 1
barrier_count(c) == c.num_threads

\* pthread_barrier_init(&barrier, NULL, n): EINVAL for a count of 0, and the
\* return value is not looked at
barrier_init(n) == [valid |-> n > 0, count |-> n, arrived |-> 0]

\* position after the loop index has become i in the creating loop
after_create_no_join(i) == IF i < cfg.num_threads THEN "create" ELSE "row"
after_create(i) ==
    IF i < cfg.num_threads THEN "create"
    ELSE IF 0 < cfg.num_threads THEN "join" ELSE "row"
\* position after the loop index has become i in the joining loop
after_join(i) == IF i < cfg.num_threads THEN "join" ELSE "row"

\* cpu_set_t set = cfg->cpu_set; pthread_barrier_init(...); i = 0
\* A worker only ever subtracts its own first reading of the clock from its
\* own second one, and the epoch is arbitrary: the clock is kept per worker
\* and counted from the entry of the call.
rb_enter ==
    /\ Running /\ rpc = "enter"
    /\ set' = cfg.cpu_set
    /\ barrier' = barrier_init(barrier_count(cfg))
    /\ failure' = IF barrier'.valid THEN "none" ELSE "barrier"
    /\ thread' = NewThreads
    /\ wpc' = [k \in Slots |-> "none"]
    /\ tic' = [k \in Slots |-> 0]
    /\ touched' = [k \in Slots |-> NoTouch]
    /\ rb_i' = 0
    /\ rpc' = after_create(0)
    /\ cfgno' = cfgno + 1
    /\ now' = [k \in Slots |-> 0]
    /\ UNCHANGED <<cfg, avars, args, platform, mpc, status, order, step,
                   ccntr_on, print, stdout_buf, nrows, ndiag>>

\* the members of the set the loop  for (j = 0; j < MAX_CPUS; j++)  can find
low_cpus(S) == {j \in S : j < MAX_CPUS}

\* the values thread[i].cpu can hold after the assignment of the loop body
assigned_cpu(S, i) ==
    IF S = {} THEN {i}
    ELSE IF low_cpus(S) # {} THEN {Min(low_cpus(S))}
    ELSE GarbageCpus

\* CPU_CLR(j, &set) of the member found
cleared(S) ==
    IF S # {} /\ low_cpus(S) # {} THEN S \ {Min(low_cpus(S))} ELSE S

\* one turn of the creating loop: the core, the diagnostic line and
\* pthread_create, whose return value is not looked at
rb_create ==
    /\ Running /\ rpc = "create"
    /\ \E c \in assigned_cpu(set, rb_i) : \E ok \in BOOLEAN :
          /\ thread' = [thread EXCEPT ![rb_i].cpu = c, ![rb_i].created = ok]
          /\ wpc' = IF ok THEN [wpc EXCEPT ![rb_i] = "affinity"] ELSE wpc
          /\ failure' = IF ok THEN failure ELSE "create"
    /\ set' = cleared(set)
    /\ ndiag' = IF print THEN ndiag + 1 ELSE ndiag
    /\ rb_i' = IF rb_i + 1 < cfg.num_threads THEN rb_i + 1 ELSE 0
    /\ rpc' = after_create(rb_i + 1)
    /\ UNCHANGED <<cfg, avars, args, platform, mpc, status, order, step,
                   ccntr_on, barrier, tic, touched, print, now, stdout_buf,
                   nrows, cfgno>>

\* pthread_join(thread[i].id, NULL), whose return value is not looked at.
\* The id of a thread that was not created is not initialised: the call
\* returns an error or the process dies.
rb_join ==
    /\ Running /\ rpc = "join"
    /\ \/ /\ thread[rb_i].created
          /\ wpc[rb_i] = "done"
          /\ UNCHANGED <<failure, status>>
       \/ /\ ~thread[rb_i].created
          /\ failure' = "join"
          /\ UNCHANGED status
       \/ /\ ~thread[rb_i].created
          /\ status' = "crash"
          /\ UNCHANGED failure
    /\ rb_i' = rb_i + 1
    /\ rpc' = after_join(rb_i + 1)
    /\ UNCHANGED <<cfg, avars, args, platform, mpc, order, step, ccntr_on,
                   set, thread, barrier, wpc, tic, touched, print, now,
                   stdout_buf, nrows, ndiag, cfgno>>

\* pthread_barrier_destroy(&barrier); printf("%d", cfg->size);
\* for (...) printf("\t%#.3g", thread[i].result); printf("\n");
rb_row ==
    /\ Running /\ rpc = "row"
    /\ barrier' = [barrier EXCEPT !.valid = FALSE]
    /\ stdout_buf' = Append(stdout_buf,
           [size |-> cfg.size,
            results |-> [k \in 1..cfg.num_threads |-> thread[k - 1].result]])
    /\ rpc' = "flush"
    /\ UNCHANGED <<cfg, avars, args, platform, mpc, status, order, step,
                   ccntr_on, rb_i, set, thread, wpc, tic, touched, print,
                   now, nrows, ndiag, cfgno, failure>>

\* fflush(stdout); print = false; and the return to main
rb_flush_keeps_print ==
    /\ Running /\ rpc = "flush"
    /\ stdout_buf' = <<>>
    /\ nrows' = nrows + Len(stdout_buf)
    /\ print' = print
    /\ rpc' = "idle"
    /\ UNCHANGED <<cfg, avars, args, platform, mpc, status, order, step,
                   ccntr_on, rb_i, set, thread, barrier, wpc, tic, touched,
                   now, ndiag, cfgno, failure>>
rb_flush ==
    /\ Running /\ rpc = "flush"
    /\ stdout_buf' = <<>>
    /\ nrows' = nrows + Len(stdout_buf)
    /\ print' = FALSE
    /\ rpc' = "idle"
    /\ UNCHANGED <<cfg, avars, args, platform, mpc, status, order, step,
                   ccntr_on, rb_i, set, thread, barrier, wpc, tic, touched,
                   now, ndiag, cfgno, failure>>

\* ------------------------------------------------------------ benchmark_thread()
\* if (pthread_setaffinity_np(...) != 0) { perror(...); exit(1); }
thread_affinity(k) ==
    /\ Running /\ wpc[k] = "affinity"
    /\ \/ /\ wpc' = [wpc EXCEPT ![k] = "prepare"]
          /\ UNCHANGED <<status, failure>>
       \/ /\ status' = "1"
          /\ failure' = "affinity"
          /\ UNCHANGED wpc
    /\ UNCHANGED <<cfg, avars, args, platform, mpc, order, step, ccntr_on,
                   rpc, rb_i, set, thread, barrier, tic, touched, print, now,
                   stdout_buf, nrows, ndiag, cfgno>>

\* first node of array[cpu], numbering the nodes of array[][] in a row
arena_base(cpu) == cpu * ARENA_NODES

\* nodes the memset of prepare() writes: those of the bytes 0 .. size-1
memset_nodes(size) == (size + NODE_BYTES - 1) \div NODE_BYTES

\* the nodes prepare(array[cpu], size, sequential) reads or writes; far tells
\* whether a scan of the random mode went on past the last node of the
\* working set
prepare_nodes(cpu, size, sequential, far) ==
    LET cnt == size \div NODE_BYTES
        base == arena_base(cpu)
    IN  IF sequential
        THEN [lo |-> base + Min({0, cnt - 1}), hi |-> base + cnt - 1]
        ELSE [lo |-> base,
              hi |-> base + Max({0, memset_nodes(size) - 1,
                                 IF far THEN cnt ELSE 0})]

\* a scan can go on past array[count-1] once that node is linked while a
\* later link is still to be made
scan_far(size, sequential) ==
    IF ~sequential /\ size \div NODE_BYTES >= 3 THEN BOOLEAN ELSE {FALSE}

\* the nodes lie in array[][]
in_array(t) == t.lo >= 0 /\ t.hi < MAX_CPUS * ARENA_NODES

\* prepare(array[me->cpu], me->cfg->size, me->cfg->sequential); an access
\* outside array[][] goes through, or ends the process
thread_prepare(k) ==
    /\ Running /\ wpc[k] = "prepare"
    /\ \E far \in scan_far(cfg.size, cfg.sequential) :
          LET t == prepare_nodes(thread[k].cpu, cfg.size, cfg.sequential, far)
          IN  /\ touched' = [touched EXCEPT ![k] = t]
              /\ \/ /\ wpc' = [wpc EXCEPT ![k] = "barrier"]
                    /\ UNCHANGED status
                 \/ /\ ~in_array(t)
                    /\ status' = "crash"
                    /\ UNCHANGED wpc
    /\ UNCHANGED <<cfg, avars, args, platform, mpc, order, step,
                   ccntr_on, rpc, rb_i, set, thread, barrier, tic, print,
                   now, stdout_buf, nrows, ndiag, cfgno, failure>>

\* the workers that wait in pthread_barrier_wait
Waiting == {w \in Slots : wpc[w] = "waiting"}

\* pthread_barrier_wait(&barrier): the caller that completes the count
\* releases the waiting ones and itself
thread_barrier_wait(k) ==
    /\ Running /\ wpc[k] = "barrier"
    /\ IF barrier.arrived + 1 >= barrier.count
       THEN /\ wpc' = [w \in Slots |->
                          IF w = k \/ w \in Waiting THEN "print" ELSE wpc[w]]
            /\ barrier' = [barrier EXCEPT !.arrived = 0]
       ELSE /\ wpc' = [wpc EXCEPT ![k] = "waiting"]
            /\ barrier' = [barrier EXCEPT !.arrived = @ + 1]
    /\ UNCHANGED <<cfg, avars, args, platform, mpc, status, order, step,
                   ccntr_on, rpc, rb_i, set, thread, tic, touched, print,
                   now, stdout_buf, nrows, ndiag, cfgno, failure>>

\* if (print) fprintf(stderr, "CPU %d starts measurement\n", me->cpu);
thread_print(k) ==
    /\ Running /\ wpc[k] = "print"
    /\ ndiag' = IF print THEN ndiag + 1 ELSE ndiag
    /\ wpc' = [wpc EXCEPT ![k] = "tic"]
    /\ UNCHANGED <<cfg, avars, args, platform, mpc, status, order, step,
                   ccntr_on, rpc, rb_i, set, thread, barrier, tic, touched,
                   print, now, stdout_buf, nrows, cfgno, failure>>

\* ccntr_get(): the counter on aarch64, return 0 elsewhere
ccntr_get(plat, t) == IF plat = "aarch64" THEN t ELSE 0

\* get_time(cfg) when the clock, or the counter, stands at t
get_time(c, plat, t) == IF c.use_cycles = FALSE THEN t ELSE ccntr_get(plat, t)

\* tic = get_time(me->cfg);
thread_tic(k) ==
    /\ Running /\ wpc[k] = "tic"
    /\ now' = [now EXCEPT ![k] = @ + 1]
    /\ tic' = [tic EXCEPT ![k] = get_time(cfg, platform, now'[k])]
    /\ wpc' = [wpc EXCEPT ![k] = "traverse"]
    /\ UNCHANGED <<cfg, avars, args, platform, mpc, status, order, step,
                   ccntr_on, rpc, rb_i, set, thread, barrier, touched, print,
                   stdout_buf, nrows, ndiag, cfgno, failure>>

\* the nodes a traversal from array[cpu][0] is known to read or write: node 0,
\* and the nodes prepare() linked
traverse_nodes(cpu, t) ==
    [lo |-> Min({t.lo, arena_base(cpu)}), hi |-> Max({t.hi, arena_base(cpu)})]

\* turns of  while (--i)  that are made: none when reads / 32 is 1
loop_entered(reads) == Dec32(reads \div BATCH) # 0

\* prepare() has linked array[0]: it has not in sequential mode with a
\* count of 0, where it writes array[-1] only
start_linked(size, sequential) == ~(sequential /\ size \div NODE_BYTES = 0)

\* do_read(array[me->cpu], ...) or do_write(array[me->cpu], ..., me->cfg->ofs);
\* following what array[0].ptr happened to hold goes through, or ends the
\* process
thread_traverse(k) ==
    /\ Running /\ wpc[k] = "traverse"
    /\ touched' = [touched EXCEPT ![k] = traverse_nodes(thread[k].cpu, @)]
    /\ \/ /\ wpc' = [wpc EXCEPT ![k] = "tac"]
          /\ UNCHANGED status
       \/ /\ loop_entered(cfg.read_count)
          /\ ~start_linked(cfg.size, cfg.sequential)
          /\ status' = "crash"
          /\ UNCHANGED wpc
    /\ UNCHANGED <<cfg, avars, args, platform, mpc, order, step,
                   ccntr_on, rpc, rb_i, set, thread, barrier, tic, print,
                   now, stdout_buf, nrows, ndiag, cfgno, failure>>

\* tac = get_time(me->cfg);
\* me->result = (double)(tac - tic) / me->cfg->read_count; return NULL;
thread_tac(k) ==
    /\ Running /\ wpc[k] = "tac"
    /\ now' = [now EXCEPT ![k] = @ + 1]
    /\ thread' = [thread EXCEPT ![k].result =
           [stored |-> TRUE,
            num |-> get_time(cfg, platform, now'[k]) - tic[k],
            den |-> cfg.read_count]]
    /\ wpc' = [wpc EXCEPT ![k] = "done"]
    /\ UNCHANGED <<cfg, avars, args, platform, mpc, status, order, step,
                   ccntr_on, rpc, rb_i, set, barrier, tic, touched, print,
                   stdout_buf, nrows, ndiag, cfgno, failure>>

\* ------------------------------------------------------------ Spec
\* -s: none (0, the sweep), half a node, three nodes, a whole arena, more
\* than an arena
SizeChoices ==
    {0, NODE_BYTES \div 2, 3 * NODE_BYTES, ARENA_BYTES, ARENA_BYTES + NODE_BYTES}
\* -C: cores that may be named
CpuChoices == {1, 2, MAX_CPUS}
Platforms == {"aarch64", "other"}

\* the command lines of the model; the sweep is run with the default
\* pattern, mode and timing only, and -o, which only the write mode reads,
\* takes one value in read mode
Args ==
    {a \in [sequential : BOOLEAN, size : SizeChoices,
            num_threads : 0..MaxThreads, read_count : {2 * BATCH},
            cpu_set : SUBSET CpuChoices, write : BOOLEAN,
            ofs : {DUMMY_LEN - 1, DUMMY_LEN}, use_cycles : BOOLEAN] :
        /\ ~a.write => a.ofs = DUMMY_LEN
        /\ a.size = 0 =>
              /\ a.sequential /\ ~a.write /\ ~a.use_cycles
              /\ a.cpu_set \in {{}, {1}}}

\* the arena variables while the process is modelled as a whole
ArenaIdle ==
    /\ ptr = FreshPtr /\ dummy = FreshDummy
    /\ apc = "off"
    /\ prep_i = 0 /\ prep_j = 0 /\ prep_p = 0
    /\ trav_i = 0 /\ trav_p = 0 /\ line = 0
    /\ steps = 0
    /\ acc = {}
    /\ ptr0 = ptr /\ dummy0 = dummy

\* the process variables while one arena is modelled
ProcessIdle ==
    /\ platform = "other"
    /\ mpc = "off" /\ status = "running"
    /\ order = 10 /\ step = 0
    /\ ccntr_on = FALSE
    /\ rpc = "idle" /\ rb_i = 0 /\ set = {}
    /\ thread = NewThreads
    /\ barrier = [valid |-> FALSE, count |-> 0, arrived |-> 0]
    /\ wpc = [k \in Slots |-> "none"]
    /\ tic = [k \in Slots |-> 0]
    /\ touched = [k \in Slots |-> NoTouch]
    /\ print = TRUE
    /\ now = [k \in Slots |-> 0]
    /\ stdout_buf = <<>>
    /\ nrows = 0 /\ ndiag = 0 /\ cfgno = 0
    /\ failure = "none"

Init ==
    /\ args \in Args
    /\ platform \in Platforms
    /\ args.size = 0 => platform = "other"
    /\ cfg = DefaultCfg
    /\ mpc = "getopt" /\ status = "running"
    /\ order = 10 /\ step = 0
    /\ ccntr_on = FALSE
    /\ rpc = "idle" /\ rb_i = 0 /\ set = {}
    /\ thread = NewThreads
    /\ barrier = [valid |-> FALSE, count |-> 0, arrived |-> 0]
    /\ wpc = [k \in Slots |-> "none"]
    /\ tic = [k \in Slots |-> 0]
    /\ touched = [k \in Slots |-> NoTouch]
    /\ print = TRUE
    /\ now = [k \in Slots |-> 0]
    /\ stdout_buf = <<>>
    /\ nrows = 0 /\ ndiag = 0 /\ cfgno = 0
    /\ failure = "none"
    /\ ArenaIdle

Next ==
    \/ main_getopt
    \/ main_assert
    \/ main_ccntr_init
    \/ main_single
    \/ main_sweep
    \/ main_sweep_next
    \/ main_return
    \/ rb_enter
    \/ rb_create
    \/ rb_join
    \/ rb_row
    \/ rb_flush
    \/ \E k \in Slots :
          \/ thread_affinity(k)
          \/ thread_prepare(k)
          \/ thread_barrier_wait(k)
          \/ thread_print(k)
          \/ thread_tic(k)
          \/ thread_traverse(k)
          \/ thread_tac(k)

Spec == Init /\ [][Next]_vars

\* ------------------------------------------------------------ SpecArena: one arena
InitArena ==
    /\ cfg \in ArenaCfgs
    /\ size_accepted(cfg.size) /\ ofs_accepted(cfg)
    /\ \/ ptr = FreshPtr /\ dummy = FreshDummy
       \/ ptr = StalePtr /\ dummy = StaleDummy
    /\ apc = "prepare"
    /\ prep_i = 0 /\ prep_j = 0 /\ prep_p = 0
    /\ trav_i = 0 /\ trav_p = 0 /\ line = 0
    /\ steps = 0
    /\ acc = {}
    /\ ptr0 = ptr /\ dummy0 = dummy
    /\ args = cfg
    /\ ProcessIdle

NextArena ==
    \/ prepare_seq_step
    \/ prepare_seq_close
    \/ prepare_memset
    \/ prepare_pick
    \/ prepare_scan
    \/ prepare_link
    \/ prepare_close
    \/ do_enter
    \/ do_loop
    \/ do_read_step
    \/ do_write_step

SpecArena == InitArena /\ [][NextArena]_vars

\* ------------------------------------------------------------ claims on the arena
\* the node reached from n after k uses of the next reference f
RECURSIVE WalkIn(_, _, _)
WalkIn(f, n, k) ==
    IF k = 0 \/ n \notin Nodes THEN n ELSE WalkIn(f, f[n], k - 1)

\* the nodes visited from node 0 in the first k steps over f
VisitedIn(f, k) == {WalkIn(f, 0, m) : m \in 0..(k - 1)}

\* C1: for every count >= 1 and both modes, after prepare() returns, following
\* next exactly count times from node 0 returns to node 0 and the count nodes
\* visited are pairwise distinct nodes of indices 0..count-1.
C1_SingleCycle ==
    (apc = "prepared" /\ count >= 1) =>
        /\ WalkIn(ptr, 0, count) = 0
        /\ VisitedIn(ptr, count) = 0..(count - 1)

\* C2: do_read performs exactly floor(op_count / 32) * 32 pointer-following
\* steps.
C2_ReadSteps ==
    (apc = "done" /\ ~cfg.write) =>
        steps = (cfg.read_count \div BATCH) * BATCH

\* the traversal has been entered
Traversing == apc \in {"loop", "batch", "done", "fault"}

\* the nodes of the cycle prepare() built from node 0
CycleNodes == VisitedIn(ptr0, count)

\* C5: in write mode with offset o over a prepared cycle of count nodes,
\* whenever do_write has executed exactly k * count steps, dummy[o] of every
\* one of the count nodes of the cycle has been incremented exactly k times
\* and no other word of any dummy has changed.
C5_WritePasses ==
    (cfg.write /\ count >= 1 /\ Traversing /\ steps % count = 0) =>
        /\ Cardinality(CycleNodes) = count
        /\ \A n \in Nodes : \A w \in 0..(DUMMY_LEN - 1) :
              dummy[n][w] = dummy0[n][w] +
                  (IF n \in CycleNodes /\ w = cfg.ofs
                   THEN steps \div count ELSE 0)

C5_Witness ==
    /\ cfg.write /\ ~cfg.sequential /\ count >= 3 /\ apc = "batch"
    /\ steps = 2 * count
    /\ cfg.ofs = DUMMY_LEN - 1
    /\ \A n \in CycleNodes : dummy[n][cfg.ofs] = dummy0[n][cfg.ofs] + 2

\* C6: for every write offset the configuration check accepts, no step of
\* do_write changes the next reference of any node, and the write never lands
\* on a next-pointer field.
C6_NextUnchanged ==
    (cfg.write /\ Traversing) =>
        /\ ptr = ptr0
        /\ (apc = "batch" /\ trav_p \in Nodes) =>
              dummy_place(trav_p, cfg.ofs).word >= PtrWords

C6_Witness ==
    /\ cfg.write /\ apc = "done" /\ steps = BATCH /\ count >= 2
    /\ cfg.ofs = DUMMY_LEN - 1
    /\ dummy # dummy0

\* ------------------------------------------------------------ claims on the process
Spawned(k) == wpc[k] # "none"
\* prepare() of worker k has returned
Prepared(k) ==
    wpc[k] \in {"barrier", "waiting", "print", "tic", "traverse", "tac", "done"}
\* worker k has taken its first timing reading
TicTaken(k) == wpc[k] \in {"traverse", "tac", "done"}

\* C3: no worker takes its first timing reading until every worker of the
\* configuration has finished populating its arena.
C3_TimedAfterAllPrepared ==
    \A k \in Slots : TicTaken(k) =>
        \A j \in Slots : j < cfg.num_threads => Prepared(j)

C3_Witness ==
    /\ cfg.num_threads = 2
    /\ wpc[0] = "done" /\ wpc[1] = "print"
    /\ thread[0].result.stored

Disjoint(a, b) ==
    a.hi < a.lo \/ b.hi < b.lo \/ a.hi < b.lo \/ b.hi < a.lo
\* the nodes t lie in array[cpu]
InArena(t, cpu) ==
    t.hi < t.lo \/
    (arena_base(cpu) <= t.lo /\ t.hi < arena_base(cpu) + ARENA_NODES)

\* C4: within one configuration no arena node is read or written by more than
\* one worker: each worker touches only nodes of its own arena and two
\* workers are never assigned the same arena.
C4_ArenasDisjoint ==
    /\ \A k \in Slots : Spawned(k) => InArena(touched[k], thread[k].cpu)
    /\ \A k1, k2 \in Slots : (k1 # k2 /\ Spawned(k1) /\ Spawned(k2)) =>
          /\ thread[k1].cpu # thread[k2].cpu
          /\ Disjoint(touched[k1], touched[k2])

\* the member of S with i smaller members
RECURSIVE nth_lowest(_, _)
nth_lowest(S, i) ==
    IF i = 0 THEN Min(S) ELSE nth_lowest(S \ {Min(S)}, i - 1)

\* C7: with a non-empty CPU set the i-th worker created is given the
\* lowest-numbered member not given to an earlier worker, with an empty set
\* core i; every spawned worker has a defined core taken from the set.
C7_CoreAssignment ==
    \A i \in Slots : Spawned(i) =>
        IF cfg.cpu_set # {}
        THEN /\ i < Cardinality(cfg.cpu_set)
             /\ thread[i].cpu = nth_lowest(cfg.cpu_set, i)
        ELSE thread[i].cpu = i

\* C8: if thread creation, thread join, barrier setup or affinity binding
\* fails in a configuration, the process ends with a non-zero status and no
\* row is emitted for that configuration; no row holds a result that no
\* worker stored.
C8_SetupFailureFatal ==
    /\ failure # "none" =>
          /\ stdout_buf = <<>>
          /\ rpc # "idle"
          /\ status # "0"
    /\ \A r \in 1..Len(stdout_buf) :
          \A k \in DOMAIN stdout_buf[r].results :
              stdout_buf[r].results[k].stored

\* the configuration errors: a size larger than one arena, a write offset
\* outside dummy
BadConfig(a) == a.size > ARENA_BYTES \/ (a.write /\ ~(a.ofs < DUMMY_LEN))

\* C9: no worker is ever spawned with a working-set size larger than one
\* arena nor, in write mode, with a write offset outside the padding; on such
\* a command line the process ends with a failure status and run_benchmark
\* is never called.
C9_ConfigCheckedFirst ==
    /\ \A k \in Slots : Spawned(k) =>
          /\ cfg.size <= ARENA_BYTES
          /\ cfg.write => cfg.ofs < DUMMY_LEN
    /\ BadConfig(args) =>
          /\ cfgno = 0 /\ rpc = "idle"
          /\ mpc \in {"getopt", "assert", "exited"}
          /\ mpc = "exited" => status \in {"1", "abort"}

C9_Witness ==
    /\ args.size > ARENA_BYTES
    /\ mpc = "exited" /\ status = "1"
    /\ cfgno = 0

\* C10: with cycle-counter timing on a platform without a readable counter,
\* no emitted row holds a result of 0 per access computed from zero readings.
C10_NoSilentZero ==
    (cfg.use_cycles /\ platform # "aarch64") =>
        \A r \in 1..Len(stdout_buf) :
            \A k \in DOMAIN stdout_buf[r].results :
                ~(stdout_buf[r].results[k].stored /\
                  stdout_buf[r].results[k].num = 0)

\* ------------------------------------------------------------ claims on the sweep
\* worker k's thread exists and has not returned
Alive(k) == wpc[k] \notin {"none", "done"}

\* C11: configurations run strictly one after another: when the row of a
\* configuration is written every worker created for it has returned and
\* been joined; when the next call of run_benchmark begins every earlier row
\* has been written and flushed; a worker thread is alive only between the
\* creating loop and the joining loop of its own configuration.
C11_OneAfterAnother ==
    /\ rpc \in {"row", "flush"} =>
          \A k \in Slots : thread[k].created => wpc[k] = "done"
    /\ rpc = "enter" => (stdout_buf = <<>> /\ nrows = cfgno)
    /\ \A k \in Slots : Alive(k) => rpc \in {"create", "join"}
    /\ nrows + Len(stdout_buf) <= cfgno
    /\ cfgno <= nrows + 1

C11_Witness ==
    /\ cfgno = 2 /\ nrows = 1
    /\ cfg.num_threads = 2
    /\ rpc = "join" /\ wpc[0] = "traverse" /\ wpc[1] = "tic"

\* ------------------------------------------------------------ SpecCreate: the creating loop
\* The creating loop of run_benchmark() on its own, for every thread count up
\* to one more than thread[] has elements. thread is here the function of the
\* indices the loop has written: an index of MAX_CPUS or more is a write past
\* the end of thread[MAX_CPUS].
MaxSpawn == MAX_CPUS + 1

\* cpu_set_t set = cfg->cpu_set; pthread_barrier_init(...); i = 0
spawn_enter ==
    /\ Running /\ rpc = "enter"
    /\ set' = cfg.cpu_set
    /\ barrier' = barrier_init(barrier_count(cfg))
    /\ failure' = IF barrier'.valid THEN "none" ELSE "barrier"
    /\ rb_i' = 0
    /\ rpc' = "create"
    /\ cfgno' = cfgno + 1
    /\ UNCHANGED <<cfg, avars, args, platform, mpc, status, order, step,
                   ccntr_on, thread, wpc, tic, touched, print, now,
                   stdout_buf, nrows, ndiag>>

\* for (i = 0; i < cfg->num_threads; i++): the core, the diagnostic line and
\* pthread_create; nothing compares i with MAX_CPUS
spawn_turn ==
    /\ Running /\ rpc = "create"
    /\ rb_i < cfg.num_threads
    /\ \E c \in assigned_cpu(set, rb_i) : \E ok \in BOOLEAN :
          /\ thread' = [j \in DOMAIN thread \cup {rb_i} |->
                           IF j = rb_i
                           THEN [cpu |-> c, created |-> ok, result |-> NoResult]
                           ELSE thread[j]]
          /\ failure' = IF ok THEN failure ELSE "create"
    /\ set' = cleared(set)
    /\ ndiag' = IF print THEN ndiag + 1 ELSE ndiag
    /\ rb_i' = rb_i + 1
    /\ UNCHANGED <<cfg, avars, args, platform, mpc, status, order, step,
                   ccntr_on, rpc, barrier, wpc, tic, touched, print, now,
                   stdout_buf, nrows, cfgno>>

\* i < cfg->num_threads is false: the loop is left
spawn_exit ==
    /\ Running /\ rpc = "create"
    /\ ~(rb_i < cfg.num_threads)
    /\ rpc' = "join"
    /\ UNCHANGED <<cfg, avars, args, platform, mpc, status, order, step,
                   ccntr_on, rb_i, set, thread, barrier, wpc, tic, touched,
                   print, now, stdout_buf, nrows, ndiag, cfgno, failure>>

\* the command lines of the creating loop: -t 0 .. MaxSpawn, without -C and
\* with -C 1
SpawnArgs ==
    [sequential : {TRUE}, size : {NODE_BYTES}, num_threads : 0..MaxSpawn,
     read_count : {2 * BATCH}, cpu_set : {{}, {1}}, write : {FALSE},
     ofs : {0}, use_cycles : {FALSE}]

InitCreate ==
    /\ args \in SpawnArgs
    /\ cfg = args
    /\ platform = "other"
    /\ mpc = "return" /\ status = "running"
    /\ order = 10 /\ step = 0
    /\ ccntr_on = FALSE
    /\ rpc = "enter" /\ rb_i = 0 /\ set = {}
    /\ thread = [j \in {} |-> [cpu |-> 0, created |-> FALSE, result |-> NoResult]]
    /\ barrier = [valid |-> FALSE, count |-> 0, arrived |-> 0]
    /\ wpc = [k \in Slots |-> "none"]
    /\ tic = [k \in Slots |-> 0]
    /\ touched = [k \in Slots |-> NoTouch]
    /\ print = TRUE
    /\ now = [k \in Slots |-> 0]
    /\ stdout_buf = <<>>
    /\ nrows = 0 /\ ndiag = 0 /\ cfgno = 0
    /\ failure = "none"
    /\ ArenaIdle

NextCreate ==
    \/ spawn_enter
    \/ spawn_turn
    \/ spawn_exit

SpecCreate == InitCreate /\ [][NextCreate]_vars

\* C12: the creating loop uses only the worker slots 0 .. MAX_CPUS-1, with
\* the default (empty) CPU set every worker it creates has an arena index
\* below MAX_CPUS, and when the loop is left it has made exactly the
\* configured number of turns, at most MAX_CPUS.
C12_WorkersBounded ==
    /\ \A i \in DOMAIN thread :
          /\ i < MAX_CPUS
          /\ cfg.cpu_set = {} => thread[i].cpu < MAX_CPUS
    /\ rpc = "join" =>
          /\ Cardinality(DOMAIN thread) = cfg.num_threads
          /\ Cardinality(DOMAIN thread) <= MAX_CPUS

\* the number, from 1, of the configuration cfg.size belongs to
ConfigNumber == IF rpc = "enter" THEN cfgno + 1 ELSE cfgno

\* C13: without -s the sizes of the configurations are, in this order,
\* 2^10, 1.5 * 2^10, 2^11, 1.5 * 2^11, ..., 2^24, 1.5 * 2^24: thirty
\* strictly increasing sizes from 1 KiB on, each a multiple of the node size
\* and no larger than one arena; the process returns only after the last.
C13_SweepSizes ==
    /\ (args.size = 0 /\ ConfigNumber >= 1) =>
          LET n == ConfigNumber
              o == 10 + (n - 1) \div 2
          IN  /\ n <= 30
              /\ cfg.size = IF n % 2 = 1 THEN 2^o ELSE 3 * 2^(o - 1)
              /\ cfg.size >= 1024
              /\ cfg.size % NODE_BYTES = 0
              /\ cfg.size <= ARENA_BYTES
    /\ (args.size = 0 /\ status = "0") => (cfgno = 30 /\ nrows = 30)

C13_Witness ==
    /\ args.size = 0 /\ status = "0"
    /\ args.num_threads = 2
    /\ cfgno = 30 /\ nrows = 30
    /\ cfg.size = 3 * 2^23

\* ------------------------------------------------------------ more claims on the arena
\* C14: in sequential mode with count >= 1, when prepare() has returned
\* next[i] = i+1 for every i < count-1 and next[count-1] = 0, whatever the
\* memory held before, and prepare() has read or written no node outside
\* 0..count-1: the other nodes and every dummy hold what they held.
C14_SequentialCycle ==
    (cfg.sequential /\ count >= 1 /\ apc = "prepared") =>
        /\ \A i \in 0..(count - 2) : ptr[i] = i + 1
        /\ ptr[count - 1] = 0
        /\ acc = 0..(count - 1)
        /\ \/ /\ \A n \in Nodes \ (0..(count - 1)) : ptr[n] = FreshPtr[n]
              /\ dummy = FreshDummy
           \/ /\ \A n \in Nodes \ (0..(count - 1)) : ptr[n] = StalePtr[n]
              /\ dummy = StaleDummy

C14_Witness ==
    /\ cfg.sequential /\ count = 3 /\ apc = "prepared"
    /\ ptr[0] = 1 /\ ptr[1] = 2 /\ ptr[2] = 0
    /\ ptr[3] = NULL

\* C15: with an operation count of exactly 32, do_read and do_write make no
\* turn of the loop: from entry to return no pointer-following step is
\* made, no node is changed, and the cursor is at node 0 at the return.
C15_OneBatchIsNone ==
    (cfg.read_count = BATCH /\ Traversing) =>
        /\ apc \in {"loop", "done"}
        /\ steps = 0
        /\ trav_p = 0
        /\ ptr = ptr0 /\ dummy = dummy0

C15_Witness ==
    /\ cfg.read_count = BATCH /\ apc = "done"
    /\ cfg.write /\ count >= 2
    /\ steps = 0 /\ trav_p = 0

\* ------------------------------------------------------------ more claims on the process
\* turns of the creating loop made in the current configuration
TurnsMade ==
    IF rpc = "create" THEN rb_i
    ELSE IF rpc \in {"join", "row", "flush"} THEN cfg.num_threads
    ELSE 0

\* the workers that are past their "starts measurement" statement
PastPrint == {k \in Slots : wpc[k] \in {"tic", "traverse", "tac", "done"}}

\* the row of the first configuration has been written
FirstRowOut == nrows >= 1 \/ stdout_buf # <<>>

\* C16: during the first configuration every turn of the creating loop and
\* every worker that passes the barrier writes its diagnostic line, and once
\* the row of the first configuration has been written no step of the
\* orchestrator or of a worker writes a diagnostic line.
C16_DiagnosticsFirstOnly ==
    /\ []((cfgno = 1 /\ rpc \notin {"idle", "enter"}) =>
             ndiag = TurnsMade + Cardinality(PastPrint))
    /\ [][FirstRowOut => ndiag' = ndiag]_vars

C16_Witness ==
    /\ cfgno = 2 /\ nrows = 1
    /\ cfg.num_threads = 2
    /\ wpc[0] = "done" /\ wpc[1] = "tac"
    /\ ndiag = 4

\* C17: with a working-set size that is a whole number (at least one) of
\* nodes, prepare() and the traversal read and write only the nodes
\* 0 .. count-1 of the arena, and every successor the traversal follows is a
\* reference to one of them.
C17_WithinWorkingSet ==
    (cfg.size % NODE_BYTES = 0 /\ count >= 1) =>
        /\ acc \subseteq 0..(count - 1)
        /\ Traversing => trav_p \in 0..(count - 1)
        /\ apc # "fault"

\* ------------------------------------------------------------ FairSpec: fair scheduling
\* the steps of the thread that runs main() and run_benchmark()
MainNext ==
    \/ main_getopt
    \/ main_assert
    \/ main_ccntr_init
    \/ main_single
    \/ main_sweep
    \/ main_sweep_next
    \/ main_return
    \/ rb_enter
    \/ rb_create
    \/ rb_join
    \/ rb_row
    \/ rb_flush

\* the steps of the thread that runs benchmark_thread() for thread[k]
WorkerNext(k) ==
    \/ thread_affinity(k)
    \/ thread_prepare(k)
    \/ thread_barrier_wait(k)
    \/ thread_print(k)
    \/ thread_tic(k)
    \/ thread_traverse(k)
    \/ thread_tac(k)

\* every thread that can take a step eventually takes one
FairSpec ==
    /\ Init /\ [][Next]_vars
    /\ WF_vars(MainNext)
    /\ \A k \in Slots : WF_vars(WorkerNext(k))

\* C18: under fair scheduling every call of run_benchmark either ends the
\* process with the failure status of a setup error or returns with its row
\* emitted: no worker stays at the barrier and the orchestrator does not
\* stay in a join.
C18_RunsToCompletion ==
    (rpc = "enter") ~> (status = "1" \/ (rpc = "idle" /\ nrows = cfgno))

\* the changes of position the claim allows a worker: the steps in their
\* order (a worker that completes the barrier does not wait), and the reuse
\* of the slot of a finished worker by the next configuration
WorkerOrder ==
    {<<"none", "affinity">>, <<"affinity", "prepare">>,
     <<"prepare", "barrier">>, <<"barrier", "waiting">>,
     <<"barrier", "print">>, <<"waiting", "print">>, <<"print", "tic">>,
     <<"tic", "traverse">>, <<"traverse", "tac">>, <<"tac", "done">>,
     <<"done", "none">>}

\* C19: a worker sets its affinity, populates its arena, arrives at the
\* barrier, takes the first reading, traverses, takes the second reading and
\* stores its result, in this order and no other; it touches no arena node
\* before its affinity is set and holds no result before its second reading;
\* no worker exists before main is past the cycle-counter enable, which has
\* been made when cycle timing is selected on aarch64.
C19_WorkerStepOrder ==
    /\ [][\A k \in Slots :
             wpc'[k] # wpc[k] => <<wpc[k], wpc'[k]>> \in WorkerOrder]_vars
    /\ [](\A k \in Slots :
             /\ touched[k] # NoTouch =>
                   wpc[k] \in {"prepare", "barrier", "waiting", "print",
                               "tic", "traverse", "tac", "done"}
             /\ thread[k].result.stored => wpc[k] = "done"
             /\ Spawned(k) =>
                   /\ mpc \notin {"getopt", "assert", "ccntr"}
                   /\ (cfg.use_cycles /\ platform = "aarch64") => ccntr_on)

C19_Witness ==
    /\ cfg.use_cycles /\ platform = "aarch64" /\ ccntr_on
    /\ cfg.num_threads = 2
    /\ wpc[0] = "done" /\ thread[0].result.stored
    /\ wpc[1] = "traverse" /\ touched[1] # NoTouch

\* ------------------------------------------------------------ FairArena: the worker runs
\* the thread of the arena model is not stopped for ever
FairArena == InitArena /\ [][NextArena]_vars /\ WF_vars(NextArena)

\* C20: in random mode with count >= 1, whatever the random indices and
\* whatever the memory held before, every scan has a node of the working
\* set with a NULL reference ahead of it, and prepare() returns, having made
\* exactly count-1 links before the closing link to node 0.
C20_RandomPrepareReturns ==
    /\ []((~cfg.sequential /\ apc = "scan") =>
             \E n \in 0..(count - 1) : ptr[n] = NULL)
    /\ []((~cfg.sequential /\ count >= 1 /\ apc = "prepared") =>
             (prep_i = count - 1 /\ ptr[prep_p] = 0))
    /\ (~cfg.sequential /\ count >= 1 /\ apc = "prepare") ~> (apc = "prepared")

C20_Witness ==
    /\ ~cfg.sequential /\ count = MaxCount /\ apc = "prepared"
    /\ prep_i = count - 1
    /\ count \in acc
    /\ ptr[count] = StalePtr[count]
====
